---- MODULE Spec2Model ----
(***************************************************************************)
(* A model of the LINE image-to-spreadsheet bot: the text-to-table         *)
(* formatting (format_text_to_table), the spreadsheet append               *)
(* (save_to_spreadsheet), and the webhook pipeline (callback and           *)
(* handle_image_message) of src/app.py.                                    *)
(*                                                                         *)
(* A Python str is a sequence of one-character strings.  A Python value    *)
(* is a record [type, val]; val is the character sequence of a str.        *)
(***************************************************************************)
EXTENDS Integers, Sequences, FiniteSets, TLC

\* ------------------------------------------------------------------ bounds
\* Longest text handed to format_text_to_table on its own.
MaxLen == 5
\* Longest text the vision API returns in the webhook pipeline.
MaxOcrLen == 3
\* Most events one webhook request carries.
MaxEvents == 1
\* Most webhook requests received.
MaxRequests == 2

\* ------------------------------------------------------------- characters
SP == " "
TAB == "\t"
NL == "\n"
CR == "\r"
Letters == {"a", "b"}
Chars == Letters \cup {SP, TAB, NL, CR}

\* str.isspace() of one character, which is also what \s matches
IsSpace(c) == c \in {SP, TAB, NL, CR}

\* All strings over alphabet of length at most n
StringsUpTo(alphabet, n) == UNION {[1..k -> alphabet] : k \in 0..n}

\* ---------------------------------------------------------- Python values
PyStr(s) == [type |-> "str", val |-> s]
PyNone == [type |-> "NoneType", val |-> <<>>]
PyBytes == [type |-> "bytes", val |-> <<"a", NL, "b">>]

\* ------------------------------------------------------- string operations
RECURSIVE lstrip(_)
lstrip(s) == IF s = <<>> \/ ~IsSpace(Head(s)) THEN s ELSE lstrip(Tail(s))

RECURSIVE rstrip(_)
rstrip(s) ==
    IF s = <<>> \/ ~IsSpace(s[Len(s)]) THEN s
    ELSE rstrip(SubSeq(s, 1, Len(s) - 1))

\* str.strip()
strip(s) == rstrip(lstrip(s))

\* str.split(sep) for a one-character separator: the pieces between the
\* separators, empty pieces kept
RECURSIVE str_split(_, _)
str_split(s, sep) ==
    IF \A i \in 1..Len(s) : s[i] # sep THEN <<s>>
    ELSE LET i == CHOOSE k \in 1..Len(s) :
                      s[k] = sep /\ \A j \in 1..(k - 1) : s[j] # sep
         IN  <<SubSeq(s, 1, i - 1)>> \o str_split(SubSeq(s, i + 1, Len(s)), sep)

\* Number of consecutive whitespace characters of s from position i on
RECURSIVE WsRun(_, _)
WsRun(s, i) ==
    IF i > Len(s) \/ ~IsSpace(s[i]) THEN 0 ELSE 1 + WsRun(s, i + 1)

\* Mutant: the pattern \t|\s+ (a single space separates columns too)
MatchLenAnySpace(s, i) ==
    IF s[i] = TAB THEN 1 ELSE WsRun(s, i)

\* Length of the match of the pattern \t|\s{2,} at position i of s, 0 when
\* it does not match there.  The first alternative wins when it matches;
\* \s{2,} is greedy.
MatchLen(s, i) ==
    IF s[i] = TAB THEN 1
    ELSE IF WsRun(s, i) >= 2 THEN WsRun(s, i) ELSE 0

\* re.split scanning s from position i, the current piece starting at start
RECURSIVE re_split_from(_, _, _)
re_split_from(s, start, i) ==
    IF i > Len(s) THEN <<SubSeq(s, start, Len(s))>>
    ELSE LET m == MatchLen(s, i)
         IN  IF m > 0
             THEN <<SubSeq(s, start, i - 1)>> \o re_split_from(s, i + m, i + m)
             ELSE re_split_from(s, start, i + 1)

\* re.split(r'\t|\s{2,}', line)
re_split(line) == re_split_from(line, 1, 1)

\* [x.strip() for x in xs if x.strip()]
StripNonEmpty(xs) ==
    SelectSeq([i \in 1..Len(xs) |-> strip(xs[i])], LAMBDA x : x # <<>>)

\* Mutant: the columns of a line without the strip-and-drop-empties pass
ColumnsKeepEmpty(line) == re_split(line)

\* The columns of one stripped line
Columns(line) == StripNonEmpty(re_split(line))

\* The try block of format_text_to_table on a str: the table as rows of
\* character sequences
Parse(s) ==
    LET lines == StripNonEmpty(str_split(s, NL))
        rows  == [i \in 1..Len(lines) |-> Columns(lines[i])]
    IN  SelectSeq(rows, LAMBDA r : r # <<>>)

\* The exception the try block raises on text, "none" when it does not:
\* text.split('\n') needs a str
ParseError(text) ==
    CASE text.type = "str" -> "none"
      [] text.type = "bytes" -> "TypeError"
      [] OTHER -> "AttributeError"

\* Mutant: the fallback returns an empty table
FallbackEmpty(text) == <<>>

\* The except branch: a single row holding the original text
Fallback(text) == <<<<text>>>>

\* except Exception
Catches(exc) == exc \in {"TypeError", "AttributeError"}

\* format_text_to_table(text): [exc, value], exc the exception that leaves
\* the function ("none" on a return), value the table returned
format_text_to_table(text) ==
    LET err == ParseError(text)
    IN  IF err = "none"
        THEN [exc |-> "none",
              value |-> LET t == Parse(text.val)
                        IN  [i \in 1..Len(t) |->
                               [j \in 1..Len(t[i]) |-> PyStr(t[i][j])]]]
        ELSE IF Catches(err)
             THEN [exc |-> "none", value |-> Fallback(text)]
             ELSE [exc |-> err, value |-> <<>>]

\* ------------------------------------------------- save_to_spreadsheet
\* Decimal digits of a natural number: str(n)
RECURSIVE Str(_)
Str(n) ==
    LET d == <<"0", "1", "2", "3", "4", "5", "6", "7", "8", "9">>[(n % 10) + 1]
    IN  IF n < 10 THEN <<d>> ELSE Str(n \div 10) \o <<d>>

\* Seconds of the clock readings datetime.now() may give
Clock == {7, 12}

\* strftime('%Y-%m-%d %H:%M:%S') of a clock reading of n seconds: the date,
\* hour and minute as one piece, then the seconds in two digits
strftime(n) ==
    <<"2026-11-05 17:00:">> \o (IF n < 10 THEN <<"0">> ELSE <<>>) \o Str(n)

\* The header row: the label of the time column ('日時', "date and time")
\* and one label '列<i>' ("column i") per column of the first row
Header(table_data) ==
    <<PyStr(<<"DateTime">>)>> \o
    [i \in 1..(IF table_data # <<>> THEN Len(table_data[1]) ELSE 0) |->
        PyStr(<<"Col">> \o Str(i))]

\* Mutant: the clock is read again for every row
ValuesFreshTime(table_data, n) ==
    <<Header(table_data)>> \o
    [i \in 1..Len(table_data) |->
        <<PyStr(strftime(n + i - 1))>> \o table_data[i]]

\* The values of the append request: the header, then one row per table
\* row, each led by current_time
Values(table_data, n) ==
    <<Header(table_data)>> \o
    [i \in 1..Len(table_data) |-> <<PyStr(strftime(n))>> \o table_data[i]]

\* ---------------------------------------------------------------- replies
\* "エラーが発生しました: " + str(e), with e's message
ErrorText(msg) == <<"Error", ":", SP>> \o msg

\* The message of the exception a failing step raises
ExcMsg(step) == <<step>>

\* The text of the success reply: that the text was extracted and saved,
\* then the extracted text itself
SuccessText(extracted) == <<"extracted and saved", NL, NL>> \o extracted.val

\* "スプレッドシートIDが設定されていません。"
NoIdText == <<"spreadsheet ID is not set">>

\* ----------------------------------------------------------------- state
VARIABLES
    text,            \* the argument of the format_text_to_table call
    ret,             \* its outcome, [exc, value]
    fpc,             \* "call" before the call, "returned" after it
    configured,      \* whether os.getenv('SPREADSHEET_ID') is set
    pc,              \* where the request handling stands
    nreq,            \* webhook requests received so far
    sig,             \* the X-Line-Signature header of the request
    events,          \* events of the request not yet dispatched
    status,          \* HTTP status answered to the request, 0 while none
    handler,         \* handle_image_message: none, running, returned, raised
    files,           \* files present in SAVE_DIR
    file_path,       \* the file the handler wrote, 0 while none
    extracted_text,  \* what extract_text_from_image returned
    values,          \* the values of the append request
    sheet,           \* the rows the spreadsheet took from this event
    log,             \* the steps invoked for this event, in order
    replies,         \* the reply_message calls for this event, in order
    failed,          \* the steps that failed for this event
    exc              \* the message of the exception being handled

fvars == <<text, ret, fpc>>
reqvars == <<nreq, sig, events, status>>
evvars == <<handler, file_path, extracted_text, values, sheet, log, replies,
            failed, exc>>
vars == <<text, ret, fpc, configured, pc, nreq, sig, events, status, handler,
          files, file_path, extracted_text, values, sheet, log, replies,
          failed, exc>>

NoRet == [exc |-> "none", value |-> <<>>]
\* A variable not assigned yet
NoText == [type |-> "unset", val |-> <<>>]

\* The state when the process is up and no request has come
Idle ==
    /\ pc = "idle"
    /\ nreq = 0 /\ sig = "none" /\ events = <<>> /\ status = 0
    /\ handler = "none" /\ files = {} /\ file_path = 0
    /\ extracted_text = NoText /\ values = <<>> /\ sheet = <<>>
    /\ log = <<>> /\ replies = <<>> /\ failed = {} /\ exc = <<>>

\* -------------------------------------- format_text_to_table on its own
\* Arguments of format_text_to_table: every str up to MaxLen, and two
\* values that are no str
Inputs == {PyStr(s) : s \in StringsUpTo(Chars, MaxLen)} \cup {PyNone, PyBytes}

InitFmt ==
    /\ text \in Inputs
    /\ ret = NoRet
    /\ fpc = "call"
    /\ configured = TRUE
    /\ Idle

CallFormat ==
    /\ fpc = "call"
    /\ ret' = format_text_to_table(text)
    /\ fpc' = "returned"
    /\ UNCHANGED <<text, configured, pc, reqvars, evvars, files>>

NextFmt == CallFormat

SpecFmt == InitFmt /\ [][NextFmt]_vars

\* ------------------------------------------------------ webhook pipeline
\* Texts the vision API may return
OcrChars == {"a", SP, TAB, NL}
OcrTexts == StringsUpTo(OcrChars, MaxOcrLen)

\* Events a request may carry: image messages, and events of other kinds,
\* for which no handler is registered
EventLists == StringsUpTo({"image", "other"}, MaxEvents)

Init ==
    /\ text = NoText /\ ret = NoRet /\ fpc = "call"
    /\ configured \in BOOLEAN
    /\ Idle

\* Mutant: every signature is accepted
SignatureAny(s) == TRUE

\* Whether handler.handle accepts the signature; it raises
\* InvalidSignatureError otherwise
SignatureValid(s) == s = "valid"

\* callback, up to handler.handle: a request without the signature header
\* is answered 400 (request.headers[...] raises a BadRequestKeyError)
Receive(s, evs) ==
    /\ pc = "idle"
    /\ nreq < MaxRequests
    /\ nreq' = nreq + 1
    /\ sig' = s
    /\ events' = evs
    /\ IF s = "missing"
       THEN status' = 400 /\ pc' = "idle"
       ELSE status' = 0 /\ pc' = "handle"
    /\ handler' = "none" /\ file_path' = 0 /\ extracted_text' = NoText
    /\ values' = <<>> /\ sheet' = <<>> /\ log' = <<>> /\ replies' = <<>>
    /\ failed' = {} /\ exc' = <<>>
    /\ text' = NoText /\ ret' = NoRet /\ fpc' = "call"
    /\ UNCHANGED <<configured, files>>

\* handler.handle checks the signature before it dispatches any event;
\* callback turns InvalidSignatureError into abort(400)
Verify ==
    /\ pc = "handle"
    /\ IF SignatureValid(sig)
       THEN pc' = "dispatch" /\ UNCHANGED status
       ELSE pc' = "idle" /\ status' = 400
    /\ UNCHANGED <<fvars, configured, nreq, sig, events, evvars, files>>

\* handler.handle gives the next event to its handler; callback returns
\* 'OK' when none is left
Dispatch ==
    /\ pc = "dispatch"
    /\ \/ /\ events = <<>>
          /\ status' = 200 /\ pc' = "idle"
          /\ UNCHANGED <<fvars, events, evvars>>
       \/ /\ events # <<>> /\ Head(events) = "image"
          /\ events' = Tail(events)
          /\ pc' = "download"
          /\ handler' = "running" /\ file_path' = 0
          /\ extracted_text' = NoText /\ values' = <<>> /\ sheet' = <<>>
          /\ log' = <<>> /\ replies' = <<>> /\ failed' = {} /\ exc' = <<>>
          /\ text' = NoText /\ ret' = NoRet /\ fpc' = "call"
          /\ UNCHANGED status
       \/ /\ events # <<>> /\ Head(events) # "image"
          /\ events' = Tail(events)
          /\ UNCHANGED <<fvars, pc, status, evvars>>
    /\ UNCHANGED <<configured, nreq, sig, files>>

\* line_bot_api.get_message_content(message_id)
Download(ok) ==
    /\ pc = "download"
    /\ log' = Append(log, "download")
    /\ IF ok
       THEN pc' = "write" /\ UNCHANGED <<failed, exc>>
       ELSE /\ pc' = "except"
            /\ failed' = failed \cup {"download"}
            /\ exc' = ExcMsg("download")
    /\ UNCHANGED <<fvars, configured, reqvars, files, handler, file_path,
                   extracted_text, values, sheet, replies>>

\* A file name uuid4 has not given before
FreshName == Cardinality(files) + 1

\* open(file_path, 'wb') and the writing of the chunks: open may fail and
\* leave no file; a chunk may fail and leave the file
WriteFile(outcome) ==
    /\ pc = "write"
    /\ log' = Append(log, "write")
    /\ IF outcome = "open_failed"
       THEN UNCHANGED <<files, file_path>>
       ELSE file_path' = FreshName /\ files' = files \cup {FreshName}
    /\ IF outcome = "ok"
       THEN pc' = "extract" /\ UNCHANGED <<failed, exc>>
       ELSE /\ pc' = "except"
            /\ failed' = failed \cup {"write"}
            /\ exc' = ExcMsg("write")
    /\ UNCHANGED <<fvars, configured, reqvars, handler, extracted_text,
                   values, sheet, replies>>

\* extract_text_from_image: Image.open, then model.generate_content; any
\* exception becomes the returned text
Extract(outcome, t) ==
    /\ pc = "extract"
    /\ log' = IF outcome = "open_failed" THEN log ELSE Append(log, "vision")
    /\ extracted_text' =
          CASE outcome = "ok" -> PyStr(t)
            [] outcome = "open_failed" -> PyStr(ErrorText(ExcMsg("open")))
            [] OTHER -> PyStr(ErrorText(ExcMsg("vision")))
    /\ failed' =
          CASE outcome = "ok" -> failed
            [] outcome = "open_failed" -> failed \cup {"open"}
            [] OTHER -> failed \cup {"vision"}
    /\ pc' = "branch"
    /\ UNCHANGED <<fvars, configured, reqvars, files, handler, file_path,
                   values, sheet, replies, exc>>

\* Mutant: the append is tried whether or not the id is set
BranchAlwaysSave(id_set) == "auth"

\* Mutant: the reply is sent before the save
BranchReplyFirst(id_set) == IF id_set THEN "reply_ok" ELSE "reply_noid"

\* if SPREADSHEET_ID: ... else: ...
BranchTarget(id_set) == IF id_set THEN "auth" ELSE "reply_noid"

Branch ==
    /\ pc = "branch"
    /\ pc' = BranchTarget(configured)
    /\ UNCHANGED <<fvars, configured, reqvars, evvars, files>>

\* get_google_sheets_service: None on any exception, and then
\* save_to_spreadsheet returns
Auth(ok) ==
    /\ pc = "auth"
    /\ log' = Append(log, "auth")
    /\ IF ok
       THEN pc' = "format" /\ UNCHANGED failed
       ELSE pc' = "reply_ok" /\ failed' = failed \cup {"auth"}
    /\ UNCHANGED <<fvars, configured, reqvars, files, handler, file_path,
                   extracted_text, values, sheet, replies, exc>>

\* save_to_spreadsheet from table_data to body: the table, the clock
\* reading, the values
Format(n) ==
    /\ pc = "format"
    /\ log' = Append(log, "format")
    /\ text' = extracted_text
    /\ ret' = format_text_to_table(extracted_text)
    /\ fpc' = "returned"
    /\ values' = Values(format_text_to_table(extracted_text).value, n)
    /\ pc' = "append"
    /\ UNCHANGED <<configured, reqvars, files, handler, file_path,
                   extracted_text, sheet, replies, failed, exc>>

\* service.spreadsheets().values().append(...).execute(); its exception is
\* caught and printed in save_to_spreadsheet
AppendRows(ok) ==
    /\ pc = "append"
    /\ log' = Append(log, "append")
    /\ IF ok
       THEN sheet' = values /\ UNCHANGED failed
       ELSE UNCHANGED sheet /\ failed' = failed \cup {"append"}
    /\ pc' = "reply_ok"
    /\ UNCHANGED <<fvars, configured, reqvars, files, handler, file_path,
                   extracted_text, values, replies, exc>>

\* One reply_message call inside the try block: the handler returns after
\* it, or its exception goes to the except block
Reply(kind, body, ok) ==
    /\ log' = Append(log, "reply")
    /\ replies' = Append(replies, [kind |-> kind, text |-> body, ok |-> ok])
    /\ IF ok
       THEN pc' = "dispatch" /\ handler' = "returned" /\ UNCHANGED <<failed, exc>>
       ELSE /\ pc' = "except"
            /\ failed' = failed \cup {"reply"}
            /\ exc' = ExcMsg("reply")
            /\ UNCHANGED handler
    /\ UNCHANGED <<fvars, configured, reqvars, files, file_path,
                   extracted_text, values, sheet>>

\* The reply after save_to_spreadsheet
ReplySuccess(ok) ==
    /\ pc = "reply_ok"
    /\ Reply("success", SuccessText(extracted_text), ok)

\* The reply of the else branch
ReplyNoId(ok) ==
    /\ pc = "reply_noid"
    /\ Reply("noid", NoIdText, ok)

\* The except block: reply_message with the error; its own exception
\* leaves the handler and callback, and the request is answered 500
Except(ok) ==
    /\ pc = "except"
    /\ log' = Append(log, "reply")
    /\ replies' = Append(replies,
                     [kind |-> "error", text |-> ErrorText(exc), ok |-> ok])
    /\ IF ok
       THEN pc' = "dispatch" /\ handler' = "returned" /\ UNCHANGED status
       ELSE pc' = "idle" /\ handler' = "raised" /\ status' = 500
    /\ UNCHANGED <<fvars, configured, nreq, sig, events, files, file_path,
                   extracted_text, values, sheet, failed, exc>>

Next ==
    \/ \E s \in {"valid", "invalid", "missing"} : \E evs \in EventLists :
          Receive(s, evs)
    \/ Verify
    \/ Dispatch
    \/ \E ok \in BOOLEAN : Download(ok)
    \/ \E o \in {"ok", "open_failed", "chunk_failed"} : WriteFile(o)
    \/ \E o \in {"ok", "open_failed", "api_failed"} : \E t \in OcrTexts :
          Extract(o, t)
    \/ Branch
    \/ \E ok \in BOOLEAN : Auth(ok)
    \/ \E n \in Clock : Format(n)
    \/ \E ok \in BOOLEAN : AppendRows(ok)
    \/ \E ok \in BOOLEAN : ReplySuccess(ok)
    \/ \E ok \in BOOLEAN : ReplyNoId(ok)
    \/ \E ok \in BOOLEAN : Except(ok)

Spec == Init /\ [][Next]_vars

\* ------------------------------------------------- format_text_to_table
\* What the table is said to hold, stated on the positions of the input
\* text s rather than by running the split.

\* Positions where an input line starts, and where the line starting at p
\* ends (p - 1 for an empty line)
LineStarts(s) == {p \in 1..(Len(s) + 1) : p = 1 \/ s[p - 1] = NL}
LineEnd(s, p) ==
    CHOOSE e \in (p - 1)..Len(s) :
        /\ e = Len(s) \/ s[e + 1] = NL
        /\ \A k \in p..e : s[k] # NL

\* The lines that are non-empty after stripping
NonBlankStarts(s) ==
    {p \in LineStarts(s) : \E k \in p..LineEnd(s, p) : ~IsSpace(s[k])}

\* s[i..j] reads as one token: it starts and ends with a visible character
\* and holds no tab, no newline and no two adjacent whitespace characters
IsToken(s, i, j) ==
    /\ i <= j
    /\ ~IsSpace(s[i]) /\ ~IsSpace(s[j])
    /\ \A k \in i..j :
          IsSpace(s[k]) => /\ s[k] \notin {TAB, NL}
                           /\ ~IsSpace(s[k - 1]) /\ ~IsSpace(s[k + 1])

\* s[i..j] is a token that no longer token contains
IsMaxToken(s, i, j) ==
    /\ IsToken(s, i, j)
    /\ \A i2 \in 1..i : \A j2 \in j..Len(s) :
          IsToken(s, i2, j2) => (i2 = i /\ j2 = j)

\* Where the tokens of the line starting at p start, and where the token
\* starting at i ends
TokenStarts(s, p) ==
    {i \in p..LineEnd(s, p) : \E j \in i..LineEnd(s, p) : IsMaxToken(s, i, j)}
TokenEnd(s, i) == CHOOSE j \in i..Len(s) : IsMaxToken(s, i, j)

\* The k-th smallest element of a set of integers
Kth(S, k) == CHOOSE x \in S : Cardinality({y \in S : y < x}) = k - 1

\* C1: for every input string, format_text_to_table returns exactly one row
\* per input line that is non-empty after stripping, in line order; each
\* row holds that line's tokens (the pieces between tabs and runs of two or
\* more whitespace characters), in order; no row is empty and no token is
\* empty or starts or ends with whitespace.
C1_RowsAreLinesOfTokens ==
    (fpc = "returned" /\ text.type = "str") =>
        LET s == text.val
            t == ret.value
        IN  /\ ret.exc = "none"
            /\ Len(t) = Cardinality(NonBlankStarts(s))
            /\ \A k \in 1..Len(t) :
                  LET p == Kth(NonBlankStarts(s), k)
                  IN  /\ Len(t[k]) = Cardinality(TokenStarts(s, p))
                      /\ Len(t[k]) > 0
                      /\ \A m \in 1..Len(t[k]) :
                            LET i == Kth(TokenStarts(s, p), m)
                                tok == t[k][m].val
                            IN  /\ t[k][m] = PyStr(SubSeq(s, i, TokenEnd(s, i)))
                                /\ tok # <<>>
                                /\ ~IsSpace(tok[1]) /\ ~IsSpace(tok[Len(tok)])

\* C1 witness: a text with a blank line and a run of spaces came back as
\* two rows, the first of two columns
C1_Witness ==
    /\ fpc = "returned" /\ text.type = "str"
    /\ Len(ret.value) = 2 /\ Len(ret.value[1]) = 2
    /\ \E i \in 1..Len(text.val) : text.val[i] = NL

\* A single-line input with no tab and no run of two or more whitespace
\* characters
SingleLineNoRuns(s) ==
    /\ \A i \in 1..Len(s) : s[i] \notin {NL, TAB}
    /\ \A i \in 1..(Len(s) - 1) : ~(IsSpace(s[i]) /\ IsSpace(s[i + 1]))

\* C2 as stated: every single-line input with no tab and no run of two or
\* more whitespace characters yields exactly one row of exactly one column.
C2_Original ==
    (fpc = "returned" /\ text.type = "str" /\ SingleLineNoRuns(text.val)) =>
        /\ Len(ret.value) = 1
        /\ Len(ret.value[1]) = 1

\* C2 amended: every such input that holds at least one non-whitespace
\* character yields exactly one row of exactly one column, the stripped
\* input; such an input of whitespace only (or empty) yields no row.
C2_SingleLineOneColumn ==
    (fpc = "returned" /\ text.type = "str" /\ SingleLineNoRuns(text.val)) =>
        IF \E i \in 1..Len(text.val) : ~IsSpace(text.val[i])
        THEN ret.value = <<<<PyStr(strip(text.val))>>>>
        ELSE ret.value = <<>>

\* C2 witness: a line with single inner spaces came back as one column
C2_Witness ==
    /\ fpc = "returned" /\ text.type = "str" /\ SingleLineNoRuns(text.val)
    /\ \E i \in 1..Len(text.val) : text.val[i] = SP
    /\ Len(ret.value) = 1 /\ Len(ret.value[1]) = 1
    /\ Len(ret.value[1][1].val) >= 3

\* C3: whenever parsing the input raises inside format_text_to_table, no
\* error leaves the function and it returns exactly one row whose only
\* column is the original input, unchanged.
C3_FallbackOnError ==
    (fpc = "returned" /\ ParseError(text) # "none") =>
        /\ ret.exc = "none"
        /\ Len(ret.value) = 1
        /\ Len(ret.value[1]) = 1
        /\ ret.value[1][1] = text

\* C3 witness: None was passed and came back as the single cell
C3_Witness ==
    /\ fpc = "returned" /\ text = PyNone
    /\ ret = [exc |-> "none", value |-> <<<<PyNone>>>>]

\* ------------------------------------------------------ webhook pipeline
\* handle_image_message has finished the event, by returning or by raising
Finished == handler \in {"returned", "raised"}

\* How often a step was invoked for this event
Count(step) == Cardinality({i \in 1..Len(log) : log[i] = step})

\* The kinds of the replies, in order
ReplyKinds == [i \in 1..Len(replies) |-> replies[i].kind]

\* C4 as stated: every row that save_to_spreadsheet appends is the
\* timestamp followed by the columns of one row of
\* format_text_to_table(text), and all rows of one append carry the same
\* timestamp.
C4_Original ==
    \E n \in Clock : \A k \in 1..Len(sheet) :
        \E r \in 1..Len(ret.value) :
            sheet[k] = <<PyStr(strftime(n))>> \o ret.value[r]

\* C4 amended: the first row save_to_spreadsheet appends is a header, the
\* time column's label followed by one label "column i" per column of the
\* first table row; every row after it is the timestamp followed by the
\* columns of the row of format_text_to_table(text) at the same place, text
\* being the extracted text; all of them carry the same timestamp.
C4_HeaderThenTimestampedRows ==
    sheet # <<>> =>
        /\ fpc = "returned" /\ text = extracted_text /\ ret.exc = "none"
        /\ Len(sheet) = Len(ret.value) + 1
        /\ sheet[1][1] = PyStr(<<"DateTime">>)
        /\ Len(sheet[1]) = 1 + (IF ret.value = <<>> THEN 0 ELSE Len(ret.value[1]))
        /\ \A j \in 2..Len(sheet[1]) : sheet[1][j] = PyStr(<<"Col">> \o Str(j - 1))
        /\ \E n \in Clock : \A k \in 2..Len(sheet) :
              sheet[k] = <<PyStr(strftime(n))>> \o ret.value[k - 1]

\* C4 witness: a text of two lines was appended as a header and two rows
C4_Witness ==
    /\ Len(sheet) = 3
    /\ Len(sheet[2]) = 2 /\ Len(sheet[3]) = 2
    /\ sheet[2][1] = sheet[3][1]

Describes(r) ==
    \/ r.kind = "error"
    \/ r.kind = "success" /\ "vision" \in failed

\* C6: any failure in a pipeline step (image download, vision API call,
\* spreadsheet authentication, spreadsheet append) results in a reply that
\* describes the error; the success reply is sent only if the rows were
\* appended.
C6_Claim ==
    Finished =>
        /\ failed \cap {"download", "vision", "auth", "append"} # {}
              => \E i \in 1..Len(replies) : Describes(replies[i])
        /\ (\E i \in 1..Len(replies) : replies[i].kind = "success")
              => sheet # <<>>

\* The place of a step in the order download, vision, reformat, append,
\* reply
Rank(step) ==
    CASE step = "download" -> 1
      [] step = "write" -> 2
      [] step = "vision" -> 3
      [] step = "auth" -> 4
      [] step = "format" -> 5
      [] step = "append" -> 6
      [] OTHER -> 7

\* The steps invoked so far came in the order of their ranks
InOrder ==
    \A i \in 1..Len(log) : \A j \in (i + 1)..Len(log) :
        \/ Rank(log[i]) < Rank(log[j])
        \/ log[i] = "reply" /\ log[j] = "reply"

\* C7 as stated: with a spreadsheet id configured the steps come in the
\* order download, vision, reformat, append, reply, and the reply is never
\* sent (a reply_message call that went through) before the append was
\* attempted.
C7_Original ==
    configured =>
        /\ InOrder
        /\ (\E i \in 1..Len(replies) : replies[i].ok) => Count("append") > 0

\* C7 amended: with a spreadsheet id configured, the steps that run come in
\* the order download, vision, reformat, append, reply, each after the one
\* before it finished; the append is attempted only after the download and
\* the reformatting; the reply is sent without the append having been
\* attempted only when the download, the writing of the image file or the
\* spreadsheet authentication failed.
C7_OrderedSteps ==
    configured =>
        /\ InOrder
        /\ Count("vision") > 0 => Count("download") > 0
        /\ Count("format") > 0 => Count("download") > 0 /\ extracted_text # NoText
        /\ Count("append") > 0 => Count("format") > 0
        /\ (Count("reply") > 0 /\ Count("append") = 0)
              => failed \cap {"download", "write", "auth"} # {}

\* C7 witness: an event went through every step once, in order
C7_Witness ==
    /\ configured /\ Finished
    /\ log = <<"download", "write", "vision", "auth", "format", "append", "reply">>

\* C8: while one event is handled, each external call (image download,
\* vision call, spreadsheet append, chat reply) is invoked at most once, on
\* every path.
C8_Claim ==
    \A step \in {"download", "vision", "append", "reply"} : Count(step) <= 1

\* C9: once handle_image_message has finished, the file it wrote under the
\* images directory no longer exists.
C9_Claim ==
    Finished => file_path \notin files

\* C10 as stated: with no spreadsheet id configured, handling an image
\* event never calls the append and sends exactly the "not set" reply,
\* after the download and the vision call (looked at where every
\* reply_message call went through).
C10_Original ==
    (~configured /\ Finished /\ \A i \in 1..Len(replies) : replies[i].ok) =>
        /\ Count("append") = 0
        /\ ReplyKinds = <<"noid">>
        /\ Count("download") = 1

\* C10 amended: with no spreadsheet id configured, handling an image event
\* never authenticates, reformats or appends and never sends the success
\* reply; when the download and the file write succeed, the first reply is
\* the "not set" reply, sent after the download and the text extraction;
\* the error reply is sent only when the download or the file write
\* failed, or second, after the "not set" reply call raised.
C10_NoIdNoAppend ==
    ~configured =>
        /\ Count("append") = 0 /\ Count("auth") = 0 /\ Count("format") = 0
        /\ sheet = <<>>
        /\ \A i \in 1..Len(replies) : replies[i].kind # "success"
        /\ (Finished /\ failed \cap {"download", "write"} = {}) =>
              /\ replies # <<>>
              /\ replies[1].kind = "noid" /\ replies[1].text = NoIdText
              /\ Count("download") = 1 /\ Count("write") = 1
              /\ extracted_text # NoText
        /\ \A i \in 1..Len(replies) : replies[i].kind = "error" =>
              \/ i = 1 /\ failed \cap {"download", "write"} # {}
              \/ i = 2 /\ replies[1].kind = "noid" /\ ~replies[1].ok

\* C10 witness: with no id configured an event was answered by the "not
\* set" reply alone, after the vision call
C10_Witness ==
    /\ ~configured /\ Finished
    /\ ReplyKinds = <<"noid">> /\ replies[1].ok
    /\ log = <<"download", "write", "vision", "reply">>

====
